---- MODULE Spec2Model ----
(***************************************************************************)
(* Model of homeassistant/components/hue/__init__.py: the legacy YAML      *)
(* importer (async_setup), the config entry reconciler and bridge setup    *)
(* (async_setup_entry) and the unload path (async_unload_entry).           *)
(*                                                                         *)
(* Python dicts are functions over their key set, lists are sequences.     *)
(* Coroutines are cut at their awaits: everything between two awaits is    *)
(* one atomic action of the single-threaded event loop.                    *)
(***************************************************************************)
EXTENDS Naturals, Sequences, FiniteSets, TLC

VARIABLES
    yaml,          \* the config mapping handed to async_setup
    phase,         \* "boot" before async_setup has run, "ready" after
    entries,       \* config entry store: entry_id -> [data, options, unique_id]
    hass_configs,  \* hass.data[DATA_CONFIGS]: host -> legacy bridge record
    hass_domain,   \* hass.data[DOMAIN]: entry_id -> HueBridge reference
    flows,         \* flow.async_init tasks scheduled, in order
    bridges,       \* entry_id -> the HueBridge objects constructed for it
    devices,       \* device registry: bridge identifier -> device record
    notifications, \* persistent notifications, by notification_id
    pc,            \* entry_id -> where the entry's lifecycle coroutine is
    call           \* entry_id -> record of the current / latest lifecycle call

vars == <<yaml, phase, entries, hass_configs, hass_domain, flows, bridges,
          devices, notifications, pc, call>>

----------------------------------------------------------------------------
(* Bounds of the model *)

\* async_setup_entry calls per entry (one HueBridge is constructed per call)
MaxSetups == 2
\* legacy bridge records in the YAML list of the importer scenarios
MaxRecords == 2

----------------------------------------------------------------------------
(* Constants of the program *)

DOMAIN_KEY == "hue"
CONF_BRIDGES == "bridges"
CONF_HOST == "host"
CONF_ALLOW_UNREACHABLE == "allow_unreachable"
CONF_ALLOW_HUE_GROUPS == "allow_hue_groups"
\* the two defaults are set in const.py; the properties below hold for either
\* value of DEFAULT_ALLOW_HUE_GROUPS
DEFAULT_ALLOW_UNREACHABLE == FALSE
DEFAULT_ALLOW_HUE_GROUPS == TRUE
SOURCE_IMPORT == "import"
VULNERABLE_MODEL == "BSB002"
\* the version string "1935144040", one element per character
FIXED_SWVERSION == <<1, 9, 3, 5, 1, 4, 4, 0, 4, 0>>
READY_TO_INSTALL == "readytoinstall"
FIRMWARE_NOTIFICATION_ID == "hue_hub_firmware"

None == "None"
Flags == {CONF_ALLOW_UNREACHABLE, CONF_ALLOW_HUE_GROUPS}

----------------------------------------------------------------------------
(* dict helpers *)

EmptyDict == [k \in {} |-> TRUE]

\* d.get(k)
DictGet(d, k) == IF k \in DOMAIN d THEN d[k] ELSE None

\* d.copy(); d.pop(k)
DictPop(d, k) == [x \in DOMAIN d \ {k} |-> d[x]]

\* {**a, **b}
DictMerge(a, b) == [x \in DOMAIN a \cup DOMAIN b |-> IF x \in DOMAIN b THEN b[x] ELSE a[x]]

\* {k: v}
DictOf(k, v) == [x \in {k} |-> v]

\* str < str: lexicographic, a proper prefix is smaller
RECURSIVE StrLess(_, _)
StrLess(a, b) ==
    IF b = <<>> THEN FALSE
    ELSE IF a = <<>> THEN TRUE
    ELSE IF Head(a) # Head(b) THEN Head(a) < Head(b)
    ELSE StrLess(Tail(a), Tail(b))

----------------------------------------------------------------------------
(* Legacy Config Importer: async_setup *)

\* mutant: the whole legacy record is passed on as the flow's data
FlowData_whole_record(bridge_conf) == bridge_conf

\* data= of the scheduled flow.async_init
FlowData(bridge_conf) == DictOf("host", bridge_conf[CONF_HOST])

\* one hass.async_create_task(flow.async_init(...))
FlowInit(bridge_conf) ==
    [domain |-> DOMAIN_KEY, source |-> SOURCE_IMPORT, data |-> FlowData(bridge_conf)]

\* the hosts stored in the existing entries
ConfiguredHosts(ents) == {DictGet(ents[e].data, "host") : e \in DOMAIN ents}

\* the loop over conf[CONF_BRIDGES]; acc = [configs, flows]
RECURSIVE ImportLoop(_, _, _)
ImportLoop(bridge_list, configured_hosts, acc) ==
    IF bridge_list = <<>> THEN acc
    ELSE LET bridge_conf == Head(bridge_list)
             host == bridge_conf[CONF_HOST]
             configs == DictMerge(acc.configs, DictOf(host, bridge_conf))
             scheduled == IF host \in configured_hosts
                          THEN acc.flows
                          ELSE Append(acc.flows, FlowInit(bridge_conf))
         IN ImportLoop(Tail(bridge_list), configured_hosts,
                       [configs |-> configs, flows |-> scheduled])

AsyncSetup ==
    /\ phase = "boot"
    /\ LET conf == IF DOMAIN_KEY \in DOMAIN yaml THEN yaml[DOMAIN_KEY] ELSE EmptyDict
           none == [configs |-> EmptyDict, flows |-> <<>>]
           out == IF CONF_BRIDGES \notin DOMAIN conf
                  THEN none
                  ELSE ImportLoop(conf[CONF_BRIDGES], ConfiguredHosts(entries), none)
       IN /\ hass_domain' = EmptyDict
          /\ hass_configs' = out.configs
          /\ flows' = flows \o out.flows
    /\ phase' = "ready"
    /\ UNCHANGED <<yaml, entries, bridges, devices, notifications, pc, call>>

----------------------------------------------------------------------------
(* Entry Reconciler: the merge stages of async_setup_entry *)

\* config_entries.async_update_entry(entry, **changes) on the call's working
\* state st = [entry, writes]: the given fields are replaced and the write is
\* persisted (recorded by the names of the fields written)
UpdateEntry(st, changes) ==
    [entry |-> [f \in DOMAIN st.entry |->
                   IF f \in DOMAIN changes THEN changes[f] ELSE st.entry[f]],
     writes |-> Append(st.writes, DOMAIN changes)]

\* the condition of a flag migration
ShouldMigrate(entry, flag, default) ==
    /\ flag \notin DOMAIN entry.options
    /\ flag \in DOMAIN entry.data
    /\ entry.data[flag] # default

\* options = {**entry.options, flag: entry.data[flag]}
MigratedOptions(entry, flag) ==
    DictMerge(entry.options, DictOf(flag, entry.data[flag]))

\* mutant: the flag is copied to options but not removed from data
MigratedData_no_pop(entry, flag) == entry.data

\* data = entry.data.copy(); data.pop(flag)
MigratedData(entry, flag) == DictPop(entry.data, flag)

\* mutant: the migration is not carried out before the connection is tried
MigrateFlag_skipped(st, flag, default) == st

MigrateFlag(st, flag, default) ==
    IF ShouldMigrate(st.entry, flag, default)
    THEN UpdateEntry(st, [data |-> MigratedData(st.entry, flag),
                          options |-> MigratedOptions(st.entry, flag)])
    ELSE st

\* mutant: the YAML value only fills a flag that options lacks
OverrideNeeded_only_absent(options, config, flag) ==
    flag \in DOMAIN config /\ flag \notin DOMAIN options

\* the condition under which the YAML value of a flag is taken
OverrideNeeded(options, config, flag) ==
    /\ flag \in DOMAIN config
    /\ \/ flag \notin DOMAIN options
       \/ config[flag] # options[flag]

\* the local options dict built from the YAML record
LegacyOverrides(options, config) ==
    [f \in {g \in Flags : OverrideNeeded(options, config, g)} |-> config[f]]

\* mutant: the entry is written also when no flag changed
ApplyOverrides_always(st, options) ==
    UpdateEntry(st, [options |-> DictMerge(st.entry.options, options)])

\* if options: async_update_entry(entry, options={**entry.options, **options})
ApplyOverrides(st, options) ==
    IF DOMAIN options # {}
    THEN UpdateEntry(st, [options |-> DictMerge(st.entry.options, options)])
    ELSE st

\* config = hass.data[DATA_CONFIGS].get(host); if config is not None: ...
LegacyOverride(st, configs) ==
    LET host == st.entry.data["host"]
    IN IF host \notin DOMAIN configs
       THEN st
       ELSE ApplyOverrides(st, LegacyOverrides(st.entry.options, configs[host]))

\* the three merge stages in their order
MergeStages(entry, configs) ==
    LegacyOverride(
        MigrateFlag(
            MigrateFlag([entry |-> entry, writes |-> <<>>],
                        CONF_ALLOW_UNREACHABLE, DEFAULT_ALLOW_UNREACHABLE),
            CONF_ALLOW_HUE_GROUPS, DEFAULT_ALLOW_HUE_GROUPS),
        configs)

----------------------------------------------------------------------------
(* Collaborators: HueBridge, its config descriptor, the device registry *)

H1 == "10.0.0.5"
H2 == "10.0.0.6"
H3 == "10.0.0.7"
Hosts == {H1, H2, H3}
EntryIds == {"e1", "e2"}

ModelIds == {"BSB002", "BSB001"}
\* "1935144030", "1935144040", "1940094000"
SwVersions == {<<1, 9, 3, 5, 1, 4, 4, 0, 3, 0>>, FIXED_SWVERSION,
               <<1, 9, 4, 0, 0, 9, 4, 0, 0, 0>>}
UpdateStates == {READY_TO_INSTALL, "noupdates"}

BoolStr(b) == IF b THEN "True" ELSE "False"

\* bridge.api.config.bridgeid of the bridge answering at a host
BridgeIdOf(host) ==
    CASE host = H1 -> "001788FFFE100001"
      [] host = H2 -> "001788FFFE200002"
      [] OTHER -> "001788FFFE300003"

\* aiohue.util.normalize_bridge_id on these identifiers: lower case, the
\* "fffe" in the middle of a 16 character identifier removed
NormalizeBridgeId(bridgeid) ==
    CASE bridgeid = "001788FFFE100001" -> "001788100001"
      [] bridgeid = "001788FFFE200002" -> "001788200002"
      [] OTHER -> "001788300003"

\* bridge.api.config
Descriptor(host, modelid, swversion, state) ==
    [bridgeid |-> BridgeIdOf(host), mac |-> <<"mac", host>>, name |-> <<"name", host>>,
     modelid |-> modelid, swversion |-> swversion, swupdate2_bridge_state |-> state]

\* HueBridge(hass, entry)
NewBridge == [setup |-> "pending", resets |-> 0, overwrote |-> FALSE]

\* mutant: the connection is dropped from the map without being reset
ResetInvoked_never(bridge) == bridge

\* bridge.async_reset() is entered
ResetInvoked(bridge) == [bridge EXCEPT !.resets = @ + 1]

\* device_registry.async_get_or_create(...): the device found or created by its
\* identifiers; of the fields copied from the descriptor the registry's copies
\* of model and sw_version are not kept in the model
GetOrCreate(devs, entry_id, config) ==
    DictMerge(devs, DictOf(config.bridgeid,
        [config_entry_id |-> entry_id, mac |-> config.mac, manufacturer |-> "Signify",
         name |-> config.name]))

----------------------------------------------------------------------------
(* async_setup_entry *)

NoCall == [op |-> "none", result |-> "none", before |-> <<>>, slot_before |-> <<>>,
           writes |-> <<>>, advisories |-> {}, registered |-> 0, bridge |-> <<>>,
           descriptor |-> <<>>, reset_returned |-> "none", overlapped |-> FALSE]

\* hass.data[DOMAIN].get(entry_id) as a list of zero or one reference
Slot(e) == IF e \in DOMAIN hass_domain THEN <<hass_domain[e]>> ELSE <<>>

\* another entry's async_setup_entry is suspended at one of its awaits
OtherInSetup(e) == \E o \in EntryIds \ {e} : pc[o] \in {"await_setup", "await_registry"}

\* from the top of async_setup_entry to the await of bridge.async_setup()
SetupStart(e) ==
    /\ phase = "ready"
    /\ e \in DOMAIN entries
    /\ pc[e] = "idle"
    /\ Len(bridges[e]) < MaxSetups
    /\ LET st == MergeStages(entries[e], hass_configs)
       IN /\ entries' = [entries EXCEPT ![e] = st.entry]
          /\ call' = [call EXCEPT ![e] =
                        [op |-> "setup", result |-> "pending", before |-> <<entries[e]>>,
                         slot_before |-> Slot(e), writes |-> st.writes,
                         advisories |-> {}, registered |-> 0,
                         bridge |-> <<e, Len(bridges[e]) + 1>>,
                         descriptor |-> <<>>, reset_returned |-> "none",
                         overlapped |-> OtherInSetup(e)]]
    /\ bridges' = [bridges EXCEPT ![e] = Append(@, NewBridge)]
    /\ pc' = [pc EXCEPT ![e] = "await_setup"]
    /\ UNCHANGED <<yaml, phase, hass_configs, hass_domain, flows, devices, notifications>>

\* mutant: the result of bridge.async_setup() is ignored
SetupAborts_never(ok) == FALSE

\* if not await bridge.async_setup(): return False
SetupAborts(ok) == ~ok

\* mutant: the map is created afresh by every successful setup
StoreConnection_fresh_map(map, entry_id, ref) == DictOf(entry_id, ref)

\* hass.data[DOMAIN][entry.entry_id] = bridge
StoreConnection(map, entry_id, ref) == DictMerge(map, DictOf(entry_id, ref))

\* if entry.unique_id is None: async_update_entry(entry, unique_id=...)
AssignUniqueId(st, bridgeid) ==
    IF st.entry.unique_id = None
    THEN UpdateEntry(st, [unique_id |-> NormalizeBridgeId(bridgeid)])
    ELSE st

\* bridge.async_setup() returns ok; on success up to the await of the registry
BridgeSetupReturns(e, ok) ==
    /\ pc[e] = "await_setup"
    /\ LET b == call[e].bridge[2]
           st == AssignUniqueId([entry |-> entries[e], writes |-> call[e].writes],
                                BridgeIdOf(entries[e].data["host"]))
       IN IF SetupAborts(ok)
          THEN /\ bridges' = [bridges EXCEPT ![e][b].setup = BoolStr(ok)]
               /\ call' = [call EXCEPT ![e].result = "False",
                                       ![e].overlapped = @ \/ OtherInSetup(e)]
               /\ pc' = [pc EXCEPT ![e] = "idle"]
               /\ UNCHANGED <<entries, hass_domain>>
          ELSE /\ bridges' = [bridges EXCEPT ![e][b].setup = BoolStr(ok),
                                             ![e][b].overwrote = (e \in DOMAIN hass_domain)]
               /\ hass_domain' = StoreConnection(hass_domain, e, call[e].bridge)
               /\ entries' = [entries EXCEPT ![e] = st.entry]
               /\ call' = [call EXCEPT ![e].writes = st.writes,
                                       ![e].overlapped = @ \/ OtherInSetup(e)]
               /\ pc' = [pc EXCEPT ![e] = "await_registry"]
    /\ UNCHANGED <<yaml, phase, hass_configs, flows, devices, notifications>>

\* mutant: the two advisories are independent checks
Advisories_independent(config) ==
    (IF config.modelid = VULNERABLE_MODEL /\ StrLess(config.swversion, FIXED_SWVERSION)
     THEN {"security_notification"} ELSE {})
    \cup
    (IF config.swupdate2_bridge_state = READY_TO_INSTALL
     THEN {"update_warning"} ELSE {})

\* the firmware advisories of one setup call
Advisories(config) ==
    IF config.modelid = VULNERABLE_MODEL /\ StrLess(config.swversion, FIXED_SWVERSION)
    THEN {"security_notification"}
    ELSE IF config.swupdate2_bridge_state = READY_TO_INSTALL
         THEN {"update_warning"}
         ELSE {}

\* from the return of dr.async_get_registry to return True
RegistryReturns(e, modelid, swversion, state) ==
    /\ pc[e] = "await_registry"
    /\ LET config == Descriptor(entries[e].data["host"], modelid, swversion, state)
           adv == Advisories(config)
       IN /\ devices' = GetOrCreate(devices, e, config)
          /\ notifications' = IF "security_notification" \in adv
                              THEN notifications \cup {FIRMWARE_NOTIFICATION_ID}
                              ELSE notifications
          /\ call' = [call EXCEPT ![e].advisories = adv,
                                  ![e].registered = @ + 1,
                                  ![e].result = "True",
                                  ![e].descriptor = <<config>>,
                                  ![e].overlapped = @ \/ OtherInSetup(e)]
    /\ pc' = [pc EXCEPT ![e] = "idle"]
    /\ UNCHANGED <<yaml, phase, entries, hass_configs, hass_domain, flows, bridges>>

----------------------------------------------------------------------------
(* async_unload_entry *)

\* mutant: the connection is looked up but left in the map
PopConnection_get(map, entry_id) == map

\* hass.data[DOMAIN].pop(entry.entry_id): what is left in the map
PopConnection(map, entry_id) == DictPop(map, entry_id)

\* return await bridge.async_reset()
UnloadResult(r) == BoolStr(r)

\* the pop (a KeyError when nothing is stored) and the entry into async_reset
UnloadStart(e) ==
    /\ phase = "ready"
    /\ e \in DOMAIN entries
    /\ pc[e] = "idle"
    /\ IF e \notin DOMAIN hass_domain
       THEN /\ call' = [call EXCEPT ![e] =
                          [NoCall EXCEPT !.op = "unload", !.result = "KeyError",
                                         !.before = <<entries[e]>>]]
            /\ UNCHANGED <<hass_domain, bridges, pc>>
       ELSE LET ref == hass_domain[e]
            IN /\ hass_domain' = PopConnection(hass_domain, e)
               /\ bridges' = [bridges EXCEPT ![ref[1]][ref[2]] = ResetInvoked(@)]
               /\ call' = [call EXCEPT ![e] =
                             [NoCall EXCEPT !.op = "unload", !.result = "pending",
                                            !.before = <<entries[e]>>,
                                            !.slot_before = Slot(e), !.bridge = ref]]
               /\ pc' = [pc EXCEPT ![e] = "await_reset"]
    /\ UNCHANGED <<yaml, phase, entries, hass_configs, flows, devices, notifications>>

\* bridge.async_reset() returns r
ResetReturns(e, r) ==
    /\ pc[e] = "await_reset"
    /\ call' = [call EXCEPT ![e].result = UnloadResult(r),
                            ![e].reset_returned = BoolStr(r)]
    /\ pc' = [pc EXCEPT ![e] = "idle"]
    /\ UNCHANGED <<yaml, phase, entries, hass_configs, hass_domain, flows, bridges,
                   devices, notifications>>

----------------------------------------------------------------------------
(* Initial states: the entry store and the YAML as platform startup finds them *)

\* the dicts holding any of the two flags with any value
FlagMaps == UNION {[S -> BOOLEAN] : S \in SUBSET Flags}

Entry(host, dataflags, optflags) ==
    [data |-> DictMerge(DictOf("host", host), dataflags), options |-> optflags,
     unique_id |-> None]

LegacyRecord(host, extra) == DictMerge(DictOf(CONF_HOST, host), extra)

YamlNoDomain == EmptyDict
YamlNoBridges == DictOf(DOMAIN_KEY, EmptyDict)
YamlOf(bridge_list) == DictOf(DOMAIN_KEY, DictOf(CONF_BRIDGES, bridge_list))

\* the lists of at most n elements of S
RECURSIVE ListsUpTo(_, _)
ListsUpTo(S, n) ==
    IF n = 0 THEN {<<>>}
    ELSE LET shorter == ListsUpTo(S, n - 1)
         IN shorter \cup {Append(l, x) : l \in shorter, x \in S}

\* one entry with every combination of the flags in data and options, and at
\* most one legacy record for its host with every combination of the flags
InitReconcile ==
    /\ entries \in {DictOf("e1", Entry(H1, d, o)) : d \in FlagMaps, o \in FlagMaps}
    /\ yaml \in {YamlNoDomain, YamlNoBridges}
                \cup {YamlOf(<<LegacyRecord(H1, fm)>>) : fm \in FlagMaps}

\* two entries for two hosts, each either unmigrated or migrated
PairEntries(host) ==
    {Entry(host, [f \in Flags |-> f = CONF_ALLOW_UNREACHABLE], EmptyDict),
     Entry(host, EmptyDict, [f \in Flags |-> TRUE])}

InitPair ==
    /\ entries \in {[e \in EntryIds |-> IF e = "e1" THEN a ELSE b] :
                        a \in PairEntries(H1), b \in PairEntries(H2)}
    /\ yaml = YamlOf(<<LegacyRecord(H1, [f \in Flags |-> FALSE]),
                       LegacyRecord(H2, DictOf(CONF_ALLOW_HUE_GROUPS, FALSE))>>)

\* the records of the importer scenarios
ImportRecords ==
    {LegacyRecord(h, x) : h \in Hosts,
                          x \in {EmptyDict,
                                 [k \in {CONF_ALLOW_UNREACHABLE, "filename"} |->
                                     IF k = "filename" THEN "phue.conf" ELSE TRUE]}}

\* no entry or one plain entry, and any list of legacy records
InitImport ==
    /\ entries \in {EmptyDict, DictOf("e1", Entry(H1, EmptyDict, EmptyDict))}
    /\ yaml \in {YamlOf(l) : l \in ListsUpTo(ImportRecords, MaxRecords)}

Init ==
    /\ phase = "boot"
    /\ hass_configs = EmptyDict
    /\ hass_domain = EmptyDict
    /\ flows = <<>>
    /\ bridges = [e \in EntryIds |-> <<>>]
    /\ devices = EmptyDict
    /\ notifications = {}
    /\ pc = [e \in EntryIds |-> "idle"]
    /\ call = [e \in EntryIds |-> NoCall]
    /\ (InitReconcile \/ InitPair \/ InitImport)

Next ==
    \/ AsyncSetup
    \/ \E e \in EntryIds : SetupStart(e)
    \/ \E e \in EntryIds, ok \in BOOLEAN : BridgeSetupReturns(e, ok)
    \/ \E e \in EntryIds, modelid \in ModelIds, swversion \in SwVersions,
          state \in UpdateStates : RegistryReturns(e, modelid, swversion, state)
    \/ \E e \in EntryIds : UnloadStart(e)
    \/ \E e \in EntryIds, r \in BOOLEAN : ResetReturns(e, r)

Spec == Init /\ [][Next]_vars

----------------------------------------------------------------------------
(* Vocabulary of the properties *)

\* the legacy bridge records handed to async_setup
YamlBridges ==
    IF DOMAIN_KEY \in DOMAIN yaml /\ CONF_BRIDGES \in DOMAIN yaml[DOMAIN_KEY]
    THEN yaml[DOMAIN_KEY][CONF_BRIDGES]
    ELSE <<>>

RecordsFor(h) == {i \in 1..Len(YamlBridges) : YamlBridges[i][CONF_HOST] = h}
FlowsFor(h) == {i \in 1..Len(flows) : flows[i].data["host"] = h}
UnconfiguredHosts ==
    {YamlBridges[i][CONF_HOST] : i \in 1..Len(YamlBridges)} \ ConfiguredHosts(entries)

DefaultOf(f) ==
    IF f = CONF_ALLOW_UNREACHABLE THEN DEFAULT_ALLOW_UNREACHABLE
    ELSE DEFAULT_ALLOW_HUE_GROUPS

\* d.get(k) as a list of zero or one value
Opt(d, k) == IF k \in DOMAIN d THEN <<d[k]>> ELSE <<>>

\* the entry as the current / latest call of e found it
Before(e) == call[e].before[1]
InSetup(e) == call[e].op = "setup"
\* the HueBridge object of the current / latest call of e
CallBridge(e) == bridges[call[e].bridge[1]][call[e].bridge[2]]

\* the legacy record of the host of e, as a dict (empty when there is none)
LegacyOf(e) ==
    IF Before(e).data["host"] \in DOMAIN hass_configs
    THEN hass_configs[Before(e).data["host"]]
    ELSE EmptyDict

\* flag f of the entry met the condition of a migration when the call began
WasMigratable(e, f) ==
    /\ f \in DOMAIN Before(e).data
    /\ f \notin DOMAIN Before(e).options
    /\ Before(e).data[f] # DefaultOf(f)

\* the value of flag f in options that the three stages lead to
MergedOption(e, f) ==
    IF f \in DOMAIN LegacyOf(e) THEN <<LegacyOf(e)[f]>>
    ELSE IF f \in DOMAIN Before(e).options THEN <<Before(e).options[f]>>
    ELSE IF WasMigratable(e, f) THEN <<Before(e).data[f]>>
    ELSE <<>>

----------------------------------------------------------------------------
(* C1 *)

\* C1 as stated: once async_setup has run, every host of a legacy record that
\* no existing entry stores has exactly one scheduled create-entry request,
\* also when several records carry that host, and every request's data has
\* the single key host.
C1_OnePerDistinctHost ==
    phase = "ready" =>
        /\ \A h \in UnconfiguredHosts : Cardinality(FlowsFor(h)) = 1
        /\ \A i \in 1..Len(flows) : DOMAIN flows[i].data = {"host"}

\* C1 amended: one create-entry request is scheduled per legacy record whose
\* host no existing entry stores (so one per distinct host only when no two
\* records share a host), none for a host an entry stores, and every
\* request's data is exactly {host: h}.
C1_OnePerRecord ==
    phase = "ready" =>
        /\ \A h \in Hosts :
              Cardinality(FlowsFor(h)) =
                  IF h \in ConfiguredHosts(entries) THEN 0
                  ELSE Cardinality(RecordsFor(h))
        /\ \A i \in 1..Len(flows) :
              /\ DOMAIN flows[i].data = {"host"}
              /\ flows[i].data["host"] \in UnconfiguredHosts

\* two records with extra keys carry the same unconfigured host
C1_Witness ==
    /\ phase = "ready"
    /\ \E h \in UnconfiguredHosts :
          /\ Cardinality(RecordsFor(h)) = 2
          /\ Cardinality(FlowsFor(h)) = 2
          /\ \E i \in RecordsFor(h) : DOMAIN YamlBridges[i] # {CONF_HOST}

----------------------------------------------------------------------------
(* C2 *)

\* C2 as stated: once the merge stages of a setup call have run, entry.data
\* holds neither of the two flags, whatever data, options and the legacy
\* record held.
C2_DataHoldsNoFlag ==
    \A e \in EntryIds : InSetup(e) => Flags \cap DOMAIN entries[e].data = {}

\* C2 amended: once the merge stages have run, a flag that met the migration
\* condition (in data, not in options, different from its default) is gone
\* from data and present in options; any other flag of data (equal to its
\* default, or already in options) is still in data with its value.
C2_MigratedFlagsLeaveData ==
    \A e \in EntryIds : InSetup(e) =>
        \A f \in Flags :
            IF WasMigratable(e, f)
            THEN f \notin DOMAIN entries[e].data /\ f \in DOMAIN entries[e].options
            ELSE Opt(entries[e].data, f) = Opt(Before(e).data, f)

\* one flag was moved out of data while the other, at its default, stayed
C2_Witness ==
    \E e \in EntryIds :
        /\ InSetup(e)
        /\ WasMigratable(e, CONF_ALLOW_UNREACHABLE)
        /\ CONF_ALLOW_UNREACHABLE \notin DOMAIN entries[e].data
        /\ CONF_ALLOW_HUE_GROUPS \in DOMAIN entries[e].data

----------------------------------------------------------------------------
(* C3 *)

\* C3: after the merge of a setup call, every flag the legacy record of the
\* entry's host holds has the legacy value in options, whatever data and
\* options held; a flag the record lacks (or with no record) has the value
\* the migration stages give it: the former option, else the migrated value
\* of data, else none.
C3_LegacyOverrideWins ==
    \A e \in EntryIds : InSetup(e) =>
        \A f \in Flags :
            /\ f \in DOMAIN LegacyOf(e) =>
                  /\ f \in DOMAIN entries[e].options
                  /\ entries[e].options[f] = LegacyOf(e)[f]
            /\ f \notin DOMAIN LegacyOf(e) =>
                  Opt(entries[e].options, f) =
                      IF f \in DOMAIN Before(e).options THEN <<Before(e).options[f]>>
                      ELSE IF WasMigratable(e, f) THEN <<Before(e).data[f]>>
                      ELSE <<>>

\* data held allow_unreachable = true, the legacy record false: options false
C3_Witness ==
    \E e \in EntryIds :
        /\ InSetup(e)
        /\ Opt(Before(e).data, CONF_ALLOW_UNREACHABLE) = <<TRUE>>
        /\ CONF_ALLOW_UNREACHABLE \notin DOMAIN Before(e).options
        /\ Opt(LegacyOf(e), CONF_ALLOW_UNREACHABLE) = <<FALSE>>
        /\ Opt(entries[e].options, CONF_ALLOW_UNREACHABLE) = <<FALSE>>

----------------------------------------------------------------------------
(* C4 *)

\* the entry holds the flags only in options, with the legacy values where a
\* legacy record for its host holds them
FullyMigrated(e) ==
    /\ Flags \cap DOMAIN Before(e).data = {}
    /\ \A f \in Flags \cap DOMAIN LegacyOf(e) :
          Opt(Before(e).options, f) = <<LegacyOf(e)[f]>>

\* the call is at least the second async_setup_entry of the entry
SecondRun(e) == InSetup(e) /\ call[e].bridge[2] >= 2

\* C4 as stated: a second async_setup_entry on a fully migrated entry makes
\* no update_entry call at all (data, options or unique_id), whatever the
\* bridge setup returned in either run.
C4_SecondRunWritesNothing ==
    \A e \in EntryIds : SecondRun(e) /\ FullyMigrated(e) => call[e].writes = <<>>

\* C4 amended: async_setup_entry on a fully migrated entry (a second run in
\* particular) makes no update_entry call with data or options; it makes one
\* update_entry call, with unique_id alone, exactly when the entry's
\* unique_id is still None and the bridge setup of this run returned true
\* (as after a first run whose bridge setup failed), and none otherwise.
C4_OnlyUniqueIdWritten ==
    \A e \in EntryIds : InSetup(e) /\ FullyMigrated(e) =>
        /\ \A i \in 1..Len(call[e].writes) : call[e].writes[i] = {"unique_id"}
        /\ Len(call[e].writes) <= 1
        /\ Len(call[e].writes) = 1 <=>
              (Before(e).unique_id = None /\ CallBridge(e).setup = "True")

\* the second run follows a failed one and assigns the unique_id
C4_Witness ==
    \E e \in EntryIds :
        /\ SecondRun(e)
        /\ FullyMigrated(e)
        /\ bridges[e][1].setup = "False"
        /\ Before(e).data["host"] \in DOMAIN hass_configs
        /\ call[e].writes = <<{"unique_id"}>>
        /\ call[e].result = "True"

----------------------------------------------------------------------------
(* C5 *)

\* C5: when bridge.async_setup() returned false, async_setup_entry has
\* returned false, the map holds for this entry_id what it held before the
\* call, no get_or_create call was made, the unique_id is the one before the
\* call and was not written, and no advisory was emitted.
C5_FailedSetupStops ==
    \A e \in EntryIds : InSetup(e) /\ CallBridge(e).setup = "False" =>
        /\ pc[e] = "idle"
        /\ call[e].result = "False"
        /\ Slot(e) = call[e].slot_before
        /\ call[e].registered = 0
        /\ entries[e].unique_id = Before(e).unique_id
        /\ \A i \in 1..Len(call[e].writes) : "unique_id" \notin call[e].writes[i]
        /\ call[e].advisories = {}
        /\ call[e].descriptor = <<>>

\* a failed setup of an entry without unique_id and without stored connection
C5_Witness ==
    \E e \in EntryIds :
        /\ InSetup(e)
        /\ CallBridge(e).setup = "False"
        /\ call[e].result = "False"
        /\ e \notin DOMAIN hass_domain
        /\ entries[e].unique_id = None

----------------------------------------------------------------------------
(* C6 *)

\* the connections of entry e that were set up and on which reset was not called
Live(e) ==
    {i \in 1..Len(bridges[e]) :
        bridges[e][i].setup = "True" /\ bridges[e][i].resets = 0}

\* C6 as stated: whatever the sequence of setup and unload calls, a setup
\* repeated without an unload included, at most one connection that was set
\* up and not reset exists per entry_id.
C6_AtMostOneLive ==
    \A e \in EntryIds : Cardinality(Live(e)) <= 1

\* C6 amended: as long as no successful setup of the entry found a
\* connection already stored under its entry_id (every setup follows an
\* unload or a failed setup, as in the host's entry lifecycle), at most one
\* connection that was set up and not reset exists for the entry_id, and it
\* is the one the map stores; a setup repeated without an unload replaces the
\* stored connection and leaves the earlier one set up and never reset.
C6_AtMostOneLiveInLifecycle ==
    \A e \in EntryIds :
        (\A i \in 1..Len(bridges[e]) : ~bridges[e][i].overwrote) =>
            /\ Cardinality(Live(e)) <= 1
            /\ \A i \in Live(e) : Slot(e) = <<(<<e, i>>)>>

\* set up, unloaded, set up again: the first connection reset, the second live
C6_Witness ==
    \E e \in EntryIds :
        /\ Len(bridges[e]) = 2
        /\ bridges[e][1].setup = "True" /\ bridges[e][1].resets = 1
        /\ ~bridges[e][2].overwrote
        /\ Live(e) = {2}

----------------------------------------------------------------------------
(* C7 *)

\* a step of async_unload_entry for e
UnloadStep(e) == call'[e].op = "unload" /\ call'[e] # call[e]

\* the connections stored under the other entry_ids are the same after the step
OthersKept(e) == \A o \in EntryIds \ {e} : Opt(hass_domain', o) = Opt(hass_domain, o)

\* C7: an unload of an entry with a stored connection removes that connection
\* from the map when it starts, whatever reset returns later, calls reset on
\* it once and returns what reset returned; no step of an unload changes the
\* connections of other entry_ids, the legacy table, any entry's data,
\* options or unique_id, or the device registry; and an unload that follows a
\* completed unload of the same entry fails with a lookup error.
C7_UnloadRemovesAndResets ==
    /\ [](\A e \in EntryIds :
            call[e].op = "unload" /\ call[e].result # "KeyError" =>
                /\ e \notin DOMAIN hass_domain
                /\ call[e].slot_before = <<call[e].bridge>>
                /\ CallBridge(e).resets = 1
                /\ pc[e] = "idle" =>
                      /\ call[e].result \in {"True", "False"}
                      /\ call[e].result = call[e].reset_returned)
    /\ [][\A e \in EntryIds : UnloadStep(e) =>
            /\ OthersKept(e)
            /\ entries' = entries
            /\ hass_configs' = hass_configs
            /\ devices' = devices
            /\ (pc[e] = "idle" /\ call[e].op = "unload") =>
                  (call'[e].result = "KeyError" /\ hass_domain' = hass_domain)]_vars

\* an unload returned false while the other entry keeps its connection
C7_Witness ==
    /\ call["e1"].op = "unload"
    /\ call["e1"].result = "False"
    /\ call["e1"].reset_returned = "False"
    /\ "e1" \notin DOMAIN hass_domain
    /\ "e2" \in DOMAIN hass_domain

----------------------------------------------------------------------------
(* C8 *)

\* the version strings of the model that are below "1935144040"
BelowFixed == {<<1, 9, 3, 5, 1, 4, 4, 0, 3, 0>>}

\* C8: a setup call that reached the advisory check emitted at most one of
\* the security notification and the update warning; for model "BSB002"
\* with a firmware below "1935144040" it emitted the notification and not
\* the warning, whatever swupdate2_bridge_state is; and it returned true.
C8_AdvisoriesExclusive ==
    \A e \in EntryIds : InSetup(e) /\ call[e].descriptor # <<>> =>
        LET config == call[e].descriptor[1]
        IN /\ Cardinality(call[e].advisories) <= 1
           /\ (config.modelid = "BSB002" /\ config.swversion \in BelowFixed) =>
                 call[e].advisories = {"security_notification"}
           /\ call[e].result = "True"
           /\ pc[e] = "idle"

\* a vulnerable bridge that is also ready to install an update
C8_Witness ==
    \E e \in EntryIds :
        /\ InSetup(e)
        /\ call[e].descriptor # <<>>
        /\ call[e].descriptor[1].modelid = "BSB002"
        /\ call[e].descriptor[1].swversion \in BelowFixed
        /\ call[e].descriptor[1].swupdate2_bridge_state = "readytoinstall"
        /\ call[e].advisories = {"security_notification"}
        /\ FIRMWARE_NOTIFICATION_ID \in notifications

----------------------------------------------------------------------------
(* C9 *)

\* the entry that async_setup_entry run alone leaves, given the entry it
\* found, the legacy table and what bridge.async_setup() returned
AloneEntry(entry, configs, ok) ==
    LET merged == MergeStages(entry, configs)
    IN IF ok
       THEN AssignUniqueId(merged, BridgeIdOf(entry.data["host"])).entry
       ELSE merged.entry

\* C9: when a setup call of an entry has returned, whatever steps of the
\* other entry's calls ran in between and since, the entry's data, options
\* and unique_id are those the call produces alone, and the map stores under
\* its entry_id the connection of this call (after success) or what it stored
\* before the call (after failure).
C9_NoInterference ==
    \A e \in EntryIds : (InSetup(e) /\ pc[e] = "idle") =>
        /\ entries[e] = AloneEntry(Before(e), hass_configs, call[e].result = "True")
        /\ call[e].bridge[1] = e
        /\ Slot(e) = IF call[e].result = "True"
                     THEN <<call[e].bridge>>
                     ELSE call[e].slot_before

\* both entries were set up with their calls interleaved, each changing its entry
C9_Witness ==
    \A e \in EntryIds :
        /\ e \in DOMAIN entries
        /\ InSetup(e)
        /\ pc[e] = "idle"
        /\ call[e].result = "True"
        /\ call[e].overlapped
        /\ Len(call[e].writes) >= 2

----------------------------------------------------------------------------
(* C10 *)

\* C10: when bridge.async_setup() returned false, the entry already holds the
\* merged values and not those it held before the call: every flag that met
\* the migration condition has left data, options holds for every flag the
\* legacy value, else the former option, else the migrated value, a write
\* was persisted for every stage that changed something, and nothing of it
\* is undone.
C10_FailedSetupKeepsMerge ==
    \A e \in EntryIds : InSetup(e) /\ CallBridge(e).setup = "False" =>
        /\ \A f \in Flags :
              /\ f \in DOMAIN entries[e].data <=>
                    (f \in DOMAIN Before(e).data /\ ~WasMigratable(e, f))
              /\ Opt(entries[e].options, f) = MergedOption(e, f)
        /\ (\E f \in Flags : MergedOption(e, f) # Opt(Before(e).options, f)) =>
              (entries[e] # Before(e) /\ call[e].writes # <<>>)

\* a failed setup left the flag moved to options and overridden from the YAML
C10_Witness ==
    \E e \in EntryIds :
        /\ InSetup(e)
        /\ CallBridge(e).setup = "False"
        /\ call[e].result = "False"
        /\ WasMigratable(e, CONF_ALLOW_UNREACHABLE)
        /\ CONF_ALLOW_UNREACHABLE \notin DOMAIN entries[e].data
        /\ CONF_ALLOW_HUE_GROUPS \in DOMAIN LegacyOf(e)
        /\ entries[e].options # Before(e).options
        /\ Len(call[e].writes) = 2

====
